---- MODULE Spec2Model ----
(***************************************************************************)
(* Model of tslearn/clustering.py: the restart controller (fit), the       *)
(* optimisation loop (_fit_one_init) and the assignment / update steps of  *)
(* KernelKMeans, TimeSeriesKMeans and KShape, together with predict,       *)
(* transform and fit_predict.                                              *)
(*                                                                         *)
(* Data model.  A dataset is a tuple of univariate time series of length   *)
(* one (shape (n_ts, 1, 1)), each holding an integer in 0..MaxVal.  On     *)
(* such series the external collaborators have closed forms:               *)
(*   cdist (euclidean) and cdist_dtw        |x - c|                        *)
(*   cdist_soft_dtw                         (x - c)^2                      *)
(*   euclidean_barycenter, dtw_barycenter_averaging, softdtw_barycenter    *)
(*                                          the mean of the members        *)
(* Centroids are means of at most NSamples-1 integers; they are stored     *)
(* multiplied by Scale = lcm(1..NSamples-1) so that arithmetic is exact    *)
(* integer arithmetic.  numpy.inf is the value Inf, None is the value      *)
(* None.  Labels are 0-based as in the code; tuples are 1-based.           *)
(***************************************************************************)
EXTENDS Integers, Sequences, FiniteSets, TLC

\* ---------------------------------------------------------------- bounds
NSamples == 4           \* n_ts: number of time series in a dataset
MaxVal == 4             \* values of the series are in 0..MaxVal
MaxIter == 2            \* max_iter ranges over 1..MaxIter
MaxNInit == 2           \* n_init ranges over 1..MaxNInit
MaxSeed == 0            \* integer random_state ranges over 0..MaxSeed
MaxFits == 2            \* fit is called at most MaxFits times on one object

\* ----------------------------------------------------- program constants
MinMaxAttempts == 10    \* max_attempts = max(self.n_init, 10)
KppBaseTrials == 2      \* n_local_trials = 2 + int(numpy.log(n_clusters))
Inf == -1               \* numpy.inf (inertias are >= 0, so -1 is free)
None == <<>>            \* Python None (no array of the model is empty)

\* ---------------------------------------------------------------- helpers
Abs(a) == IF a < 0 THEN -a ELSE a
Max(a, b) == IF a < b THEN b ELSE a
Min(a, b) == IF a < b THEN a ELSE b

RECURSIVE Gcd(_, _)
Gcd(a, b) == IF b = 0 THEN a ELSE Gcd(b, a % b)

RECURSIVE LcmUpTo(_)
LcmUpTo(n) == IF n <= 1 THEN 1
              ELSE LET l == LcmUpTo(n - 1) IN (l * n) \div Gcd(l, n)

\* centroids are stored multiplied by Scale; a centroid is a mean over a
\* cluster of at most NSamples - 1 members (every update follows an
\* assignment that left none of the n_clusters >= 2 clusters empty)
Scale == LcmUpTo(NSamples - 1)

RECURSIVE SumSeq(_)
SumSeq(s) == IF s = <<>> THEN 0 ELSE Head(s) + SumSeq(Tail(s))

\* numpy order on inertias, with numpy.inf
isfinite(a) == a # Inf
\* an order in which equal inertias count as lower
Less_or_equal(a, b) == IF b = Inf THEN TRUE ELSE IF a = Inf THEN FALSE ELSE a <= b

Less(a, b) == IF a = Inf THEN FALSE ELSE IF b = Inf THEN TRUE ELSE a < b

\* a tolerance test that no pair of inertias passes
WithinTol_never(old, new) == FALSE

\* numpy.abs(old_inertia - inertia) < tol, for the default tol = 1e-6: two
\* inertias of one attempt are multiples of 1 / (n_ts * Scale^4), so they
\* differ by less than tol exactly when they are equal; inf - x is inf.
WithinTol(old, new) == old # Inf /\ new # Inf /\ Abs(old - new) < 1

\* an argmin that counts the columns from 1
ArgMin_from_one(row) ==
    CHOOSE j \in 1..Len(row) :
        \A m \in 1..Len(row) : row[j] < row[m] \/ (row[j] = row[m] /\ j <= m)

\* numpy argmin over one row: the lowest index among the minima (0-based)
ArgMin(row) ==
    (CHOOSE j \in 1..Len(row) :
        \A m \in 1..Len(row) : row[j] < row[m] \/ (row[j] = row[m] /\ j <= m)) - 1

\* floor of the natural logarithm of k, for k in 1..54 (e^1 < 3, e^2 < 8,
\* e^3 < 21, e^4 < 55)
IntLog(k) == IF k < 3 THEN 0 ELSE IF k < 8 THEN 1 ELSE IF k < 21 THEN 2 ELSE 3

\* ------------------------------------------------------ inputs of a model
Estimators == {"KernelKMeans", "TimeSeriesKMeans", "KShape"}

\* the metric names _transform dispatches on, and one it does not know
Metrics == {"euclidean", "dtw", "softdtw"}
MetricNames == Metrics \cup {"manhattan"}

\* the init keywords of _fit_one_init, and one it does not know
InitKeywords == {"k-means++", "random", "forgy"}

\* explicit initial centroid arrays a caller may pass as init (shape
\* (len, 1, 1)): right and wrong cluster counts, distinct and equal rows
InitArrays == {<<2>>, <<1, 4>>, <<4, 4>>, <<0, 6, 1>>}

NClusters == {2, 3}

NoSeed == -1
Auto == 0               \* kernel_params = {"sigma": "auto"}
NoSigma == -2           \* sigma_gak_ = None, and no bandwidth configured
DefaultSigma == 1       \* the default of the argument sigma            \* random_state=None: the global numpy generator

\* datasets: n_ts series of length 1, listed in non-decreasing order and
\* spanning the whole range of values (the smallest is 0, the largest MaxVal)
Datasets == {d \in [1..NSamples -> 0..MaxVal] :
                /\ d[1] = 0 /\ d[NSamples] = MaxVal
                /\ \A i \in 1..(NSamples - 1) : d[i] <= d[i + 1]}

\* ------------------------------------------------------- random numbers
\* A RandomState is [seed, pos]: the state it was created in and the number
\* of values drawn from it so far.  Its output is a fixed stream of values
\* (the Mersenne Twister is deterministic); the stream of state `seed` is
\* StreamTable read cyclically from offset seed * SeedStride.
RandRes == 3            \* random_sample() returns one of 0/RandRes .. (RandRes-1)/RandRes

StreamTable == <<3, 1, 4, 1, 5, 9, 2, 6, 5, 3, 5, 8, 9, 7, 9, 3, 2, 3, 8, 4, 6,
                 2, 6, 4, 3, 3, 8, 3, 2, 7, 9, 5, 0, 2, 8, 8, 4, 1, 9, 7, 1>>
SeedStride == 7

Stream(seed, pos) == StreamTable[((seed * SeedStride + pos) % Len(StreamTable)) + 1]

\* the result of rs.randint(n, size=size) / rs.choice(n, size)
Randint(rs, n, size) == [i \in 1..size |-> Stream(rs.seed, rs.pos + i - 1) % n]

\* the result of rs.random_sample(size), as numerators over RandRes
RandomSample(rs, size) == [i \in 1..size |-> Stream(rs.seed, rs.pos + i - 1) % RandRes]

Advance(rs, size) == [rs EXCEPT !.pos = @ + size]

\* the states the global numpy generator may be in when fit is called
GlobalStates == 0..(MaxSeed + 1)

\* sklearn.utils.check_random_state: the generators it may return.  An
\* integer makes a new generator seeded with it; None is the global
\* generator, in whatever state the process left it.
\* a fit that always draws from the global generator
check_random_state_global(seed) == {[seed |-> g, pos |-> 0] : g \in GlobalStates}

check_random_state(seed) ==
    IF seed = NoSeed THEN {[seed |-> g, pos |-> 0] : g \in GlobalStates}
    ELSE {[seed |-> seed, pos |-> 0]}

\* ------------------------------------------------------- module functions
\* _check_no_empty_cluster: TRUE when it returns, FALSE when it raises
\* EmptyClusterError (some cluster index has no sample)
_check_no_empty_cluster(labels, n_clusters) ==
    \A k \in 0..(n_clusters - 1) : \E i \in 1..Len(labels) : labels[i] = k

\* _compute_inertia: sum of the (squared) distances of the samples to their
\* assigned centroid; the division by n_ts, the same for every inertia of
\* one fit, is left out so that the value stays an integer
_compute_inertia(distances, assignments, squared) ==
    SumSeq([i \in 1..Len(distances) |->
              LET d == distances[i][assignments[i] + 1]
              IN IF squared THEN d * d ELSE d])

\* _check_initial_guess: TRUE when the assertion holds
\* a check without the assertion
_check_initial_guess_skipped(init_array, n_clusters) == TRUE

_check_initial_guess(init_array, n_clusters) ==
    init_array # None => Len(init_array) = n_clusters

\* _check_full_length: centroids of full length come back unchanged from
\* the resampler (no centroid of the model is padded with nans)
_check_full_length(centroids) == centroids

\* ----------------------------------------------------- TimeSeriesKMeans
\* distance of sample value x to the stored centroid c (c is Scale times
\* the centroid), in units of 1/Scale (1/Scale^2 for softdtw)
Dist(metric, x, c) ==
    IF metric = "softdtw" THEN (Scale * x - c) * (Scale * x - c)
    ELSE Abs(Scale * x - c)

\* TimeSeriesKMeans._transform, for a metric it knows
_transform(metric, Xd, centers) ==
    [i \in 1..Len(Xd) |-> [j \in 1..Len(centers) |-> Dist(metric, Xd[i], centers[j])]]

\* the labels _assign derives: dists.argmin(axis=1)
MatchedLabels(dists) == [i \in 1..Len(dists) |-> ArgMin(dists[i])]

\* the distances _assign computes the inertia from
InertiaDists(p, Xd, centers) ==
    IF p.dtw_inertia /\ p.metric # "dtw" THEN _transform("dtw", Xd, centers)
    ELSE _transform(p.metric, Xd, centers)

\* the inertia _assign stores (self._squared_inertia is True)
AssignInertia(p, Xd, centers, labels) ==
    _compute_inertia(InertiaDists(p, Xd, centers), labels, TRUE)

\* the barycenter of the members of cluster k (mean of the member values,
\* times Scale); euclidean_barycenter, dtw_barycenter_averaging and
\* softdtw_barycenter agree on series of length one
Barycenter(Xd, labels, k) ==
    LET members == {i \in 1..Len(Xd) : labels[i] = k}
    IN (Scale * SumSeq([i \in 1..Len(Xd) |-> IF i \in members THEN Xd[i] ELSE 0]))
          \div Cardinality(members)

\* TimeSeriesKMeans._update_centroids
_update_centroids(Xd, labels, n_clusters) ==
    [j \in 1..n_clusters |-> Barycenter(Xd, labels, j - 1)]

\* an argument a call does not pass: the callee uses its own default
NotPassed == -1

\* the call _update_centroids makes for the cluster whose centroid is
\* centroid: the routine, the barycenter it starts from, the iteration
\* cap it is given.  The routines are external; on series of length one
\* each of them returns the mean of the cluster (Barycenter).
BarycenterCall(metric, centroid, cap) ==
    IF metric = "dtw"
    THEN [routine |-> "dtw_barycenter_averaging", init |-> centroid,
          max_iter |-> NotPassed]
    ELSE IF metric = "softdtw"
    THEN [routine |-> "softdtw_barycenter", init |-> centroid, max_iter |-> cap]
    ELSE [routine |-> "euclidean_barycenter", init |-> NotPassed,
          max_iter |-> NotPassed]

\* ------------------------------------------- k-means++ (_k_init_metric)
\* cdist_metric(a, b) ** 2 between two samples
KppDistSq(metric, a, b) ==
    IF metric = "softdtw" THEN (a - b) * (a - b) * (a - b) * (a - b)
    ELSE (a - b) * (a - b)

n_local_trials(n_clusters) == KppBaseTrials + IntLog(n_clusters)

\* stable_cumsum
Cumsum(v) == [i \in 1..Len(v) |-> SumSeq(SubSeq(v, 1, i))]

\* numpy.searchsorted(cum, r / RandRes * pot) clipped to the last index:
\* the number of entries of cum below the value (0-based index)
CandidateId(cum, r, pot) ==
    Min(Cardinality({i \in 1..Len(cum) : cum[i] * RandRes < r * pot}), Len(cum) - 1)

\* state of _k_init_metric after the first center: center_id is its index
KppFirst(metric, Xd, center_id) ==
    LET closest == [i \in 1..Len(Xd) |-> KppDistSq(metric, Xd[center_id + 1], Xd[i])]
    IN [centers |-> <<Xd[center_id + 1]>>,
        candidate_ids |-> None,
        closest_dist_sq |-> closest,
        current_pot |-> SumSeq(closest)]

\* a seeding that keeps the first candidate whatever its potential
BestCandidate_first(candidates_pot) == 1

\* best_candidate = numpy.argmin(candidates_pot), as an index from 1
BestCandidate(candidates_pot) == ArgMin(candidates_pot) + 1

\* an update that forgets the distances to the centers chosen before
minimum_second(closest, to_candidate) == to_candidate

\* numpy.minimum(closest_dist_sq, distance_to_candidates), for one sample
minimum(closest, to_candidate) == Min(closest, to_candidate)

\* one pass of the loop of _k_init_metric: rand is the tuple of values
\* random_sample returned (numerators over RandRes)
KppNext(metric, Xd, k, rand) ==
    LET cum == Cumsum(k.closest_dist_sq)
        candidate_ids == [t \in 1..Len(rand) |-> CandidateId(cum, rand[t], k.current_pot)]
        distance_to_candidates ==
            [t \in 1..Len(rand) |->
               [i \in 1..Len(Xd) |->
                  minimum(k.closest_dist_sq[i],
                          KppDistSq(metric, Xd[candidate_ids[t] + 1], Xd[i]))]]
        candidates_pot == [t \in 1..Len(rand) |-> SumSeq(distance_to_candidates[t])]
        best_candidate == BestCandidate(candidates_pot)
    IN [centers |-> Append(k.centers, Xd[candidate_ids[best_candidate] + 1]),
        candidate_ids |-> candidate_ids,
        closest_dist_sq |-> distance_to_candidates[best_candidate],
        current_pot |-> candidates_pot[best_candidate]]

\* centroid array of sample values, as stored (times Scale)
Stored(values) == [j \in 1..Len(values) |-> Scale * values[j]]

\* an init that takes every array to be in sample units
InitCentroids_rescaled(init) == Stored(init.array)

\* self.init.copy(), as stored: an array the caller took from the
\* cluster_centers_ of a fitted model is in stored units already
InitCentroids(init) ==
    IF init.kw = "cluster_centers_" THEN init.array ELSE Stored(init.array)

\* the norms of the centroid arrays of KShape when it holds none
NoNorms == [centers |-> None, best |-> None]

\* ------------------------------------------------------------------ state
VARIABLES
    params,           \* constructor arguments of the estimator (self.*)
    X,                \* the dataset the caller passes to fit and predict
    pc,               \* "new", "loop" (head of the while of fit), "kinit"
                      \* (inside the k-means++ seeding), "iter" (head of the
                      \* for of _fit_one_init), "returned", "raised"
    exc,              \* the exception that reached the caller of fit
    has_attrs,        \* fit has set the fitted attributes (hasattr is true)
    labels_, inertia_, cluster_centers_, X_fit, n_iter_, iter_,
    rs, n_attempts, n_successful, min_inertia,
    best,             \* best_correct_centroids / last_correct_labels
    it, old_inertia,  \* locals of _fit_one_init
    kpp,              \* locals of _k_init_metric
    log,              \* history: the attempts that completed, in order
    hist,             \* history: the inertias of the current attempt (for
                      \* KShape, that of the initial assignment first)
    n_assign,         \* history: assignments started in this fit
    n_update,         \* history: centroid updates executed in this fit (for
                      \* KernelKMeans: columns of dist that were computed)
    ret,              \* what fit / fit_predict, predict and transform returned
    fits,             \* number of fit calls on this object so far
    first,            \* outcome of the previous fit call on this object
    sigma_gak_,       \* the fitted attribute of KernelKMeans
    starts,           \* history: the attempts started in this fit, in order
    n_full,           \* history: calls of _check_full_length in this fit
    other,            \* outcome of the object the caller fitted before this one
    barycenters,      \* history: the barycenter calls of the last
                      \* _update_centroids, one per cluster
    call,             \* a method the caller calls directly: its arguments
                      \* and what it filled or returned
    norms_centroids_, \* the attribute of KShape
    norms_of          \* history: the norms of the arrays cluster_centers_
                      \* and best_correct_centroids hold now

vars == <<params, X, pc, exc, has_attrs, labels_, inertia_, cluster_centers_,
          X_fit, n_iter_, iter_, rs, n_attempts, n_successful, min_inertia,
          best, it, old_inertia, kpp, log, hist, n_assign, n_update, ret, fits,
          first, sigma_gak_, starts, n_full, other, barycenters, call,
          norms_centroids_, norms_of>>

attrs == <<has_attrs, labels_, inertia_, cluster_centers_, X_fit, n_iter_, iter_>>
restart == <<rs, n_attempts, n_successful, min_inertia, best>>
attempt == <<it, old_inertia, kpp>>
history == <<log, hist, n_assign, n_update>>
aside == <<sigma_gak_, starts, n_full, other, barycenters, call, norms_centroids_,
           norms_of>>

Seeds == {NoSeed} \cup 0..MaxSeed

\* n_init: the small values, and one above the floor of max_attempts
NInits == (1..MaxNInit) \cup {MinMaxAttempts + 1}

Inits == {[kw |-> w, array |-> None] : w \in InitKeywords}
            \cup {[kw |-> "", array |-> a] : a \in InitArrays}

\* kernel and sigma are arguments of KernelKMeans only, max_iter_barycenter
\* of TimeSeriesKMeans only: the other estimators hold placeholders
\* max_iter_barycenter as __init__ sets it when the caller gives none
DefaultBarycenterIter == 100

TSKParams ==
    [est : {"TimeSeriesKMeans"}, n_clusters : NClusters, n_init : NInits,
     max_iter : 1..MaxIter, metric : MetricNames, init : Inits,
     dtw_inertia : BOOLEAN, random_state : Seeds, kernel : {""},
     sigma : {NoSigma}, max_iter_barycenter : {DefaultBarycenterIter}]

KeywordInit(w) == [kw |-> w, array |-> None]

\* the bandwidth the caller configures for kernel="gak": sigma is
\* kernel_params["sigma"] when given ("auto" or a number), else self.sigma
GakSigmas == {Auto, DefaultSigma}

\* KernelKMeans has neither metric nor init: the fields hold placeholders.
\* kernel is "gak" or a callable (which takes no bandwidth)
KernelParams ==
    [est : {"KernelKMeans"}, n_clusters : NClusters, n_init : NInits,
     max_iter : 1..MaxIter, metric : {"kernel"}, init : {KeywordInit("")},
     dtw_inertia : {FALSE}, random_state : Seeds, kernel : {"gak"},
     sigma : GakSigmas, max_iter_barycenter : {NotPassed}]
    \cup
    [est : {"KernelKMeans"}, n_clusters : NClusters, n_init : NInits,
     max_iter : 1..MaxIter, metric : {"kernel"}, init : {KeywordInit("")},
     dtw_inertia : {FALSE}, random_state : Seeds, kernel : {"callable"},
     sigma : {NoSigma}, max_iter_barycenter : {NotPassed}]

\* KShape has no metric: the field holds a placeholder; its n_init stays
\* small because every shape extraction of every attempt is a choice
KShapeParams ==
    [est : {"KShape"}, n_clusters : NClusters, n_init : 1..MaxNInit,
     max_iter : 1..MaxIter, metric : {"sbd"}, init : Inits,
     dtw_inertia : {FALSE}, random_state : Seeds, kernel : {""},
     sigma : {NoSigma}, max_iter_barycenter : {NotPassed}]

\* dtw_inertia is set only with a metric whose inertia it changes (on
\* series of length one cdist_dtw and the euclidean cdist agree)
Params == {p \in TSKParams : p.dtw_inertia => p.metric = "softdtw"}
             \cup KernelParams \cup KShapeParams

NoResult == [kind |-> "none", val |-> None, err |-> ""]
Raised(e) == [kind |-> "raise", val |-> None, err |-> e]
Value(kind, v) == [kind |-> kind, val |-> v, err |-> ""]
NoCalls == [fit |-> NoResult, predict |-> NoResult, transform |-> NoResult]

\* an estimator object right after its construction
Constructed ==
    /\ pc = "new" /\ exc = "" /\ has_attrs = FALSE
    /\ labels_ = None /\ inertia_ = Inf /\ cluster_centers_ = None
    /\ X_fit = None /\ n_iter_ = 0 /\ iter_ = 0
    /\ rs = [seed |-> 0, pos |-> 0]
    /\ n_attempts = 0 /\ n_successful = 0 /\ min_inertia = Inf /\ best = None
    /\ it = 0 /\ old_inertia = Inf /\ kpp = None
    /\ log = <<>> /\ hist = <<>> /\ n_assign = 0 /\ n_update = 0
    /\ ret = NoCalls /\ fits = 0 /\ first = None
    /\ sigma_gak_ = NoSigma /\ starts = <<>> /\ n_full = 0
    /\ barycenters = <<>> /\ call = None
    /\ norms_centroids_ = None /\ norms_of = NoNorms

Init ==
    /\ params \in Params
    /\ X \in Datasets
    /\ Constructed
    /\ other = None

\* a restart controller that allows ten attempts beyond n_init
max_attempts_extra(n_init) == n_init + MinMaxAttempts

max_attempts(n_init) == Max(n_init, MinMaxAttempts)

\* the outcome of a fit call that a later call can be compared with
Outcome ==
    [pc |-> pc, exc |-> exc, labels_ |-> labels_, inertia_ |-> inertia_,
     cluster_centers_ |-> cluster_centers_, n_iter_ |-> n_iter_,
     sigma_gak_ |-> sigma_gak_]

\* ------------------------------------------------- TimeSeriesKMeans.fit
\* fit up to the while loop: reset of the fitted attributes, random state,
\* _check_initial_guess
TSKFit ==
    /\ params.est = "TimeSeriesKMeans"
    /\ pc \in {"new", "returned", "raised"}
    /\ fits < MaxFits
    /\ fits' = fits + 1
    /\ first' = IF fits = 0 THEN None ELSE Outcome
    /\ has_attrs' = TRUE
    /\ labels_' = None /\ inertia_' = Inf /\ cluster_centers_' = None
    /\ X_fit' = None /\ n_iter_' = 0
    /\ rs' \in check_random_state(params.random_state)
    /\ best' = None /\ min_inertia' = Inf /\ n_successful' = 0 /\ n_attempts' = 0
    /\ log' = <<>> /\ hist' = <<>> /\ n_assign' = 0 /\ n_update' = 0
    /\ ret' = NoCalls
    /\ starts' = <<>> /\ n_full' = 0 /\ barycenters' = <<>>
    /\ IF _check_initial_guess(params.init.array, params.n_clusters)
       THEN pc' = "loop" /\ exc' = ""
       ELSE pc' = "raised" /\ exc' = "AssertionError"
    /\ UNCHANGED <<params, X, iter_, attempt, sigma_gak_, other, call, norms_centroids_,
                   norms_of>>

\* an attempt as it starts: the state of the generator, the sample indices
\* init="random" draws, the initial centroids (for KernelKMeans the initial
\* labels) once they are known
Started(state, indices, init) == [rs |-> state, indices |-> indices, init |-> init]

\* the condition of the while loop of fit
MoreAttempts ==
    n_successful < params.n_init /\ n_attempts < max_attempts(params.n_init)

\* one pass of the while loop up to the for loop of _fit_one_init: the
\* initial centroids (for k-means++, the first center)
TSKStartAttempt ==
    /\ params.est = "TimeSeriesKMeans"
    /\ pc = "loop" /\ MoreAttempts
    /\ n_attempts' = n_attempts + 1
    /\ hist' = <<>>
    /\ it' = 0 /\ old_inertia' = Inf
    /\ UNCHANGED <<params, X, has_attrs, labels_, inertia_, X_fit, n_iter_, iter_,
                   n_successful, min_inertia, best, log, n_assign, n_update, ret,
                   fits, first, sigma_gak_, other,
                   barycenters, call, norms_centroids_,
                   norms_of>>
    /\ IF params.init.array # None
       THEN /\ cluster_centers_' = _check_full_length(InitCentroids(params.init))
            /\ starts' = Append(starts, Started(rs, None, InitCentroids(params.init)))
            /\ n_full' = n_full + 1
            /\ pc' = "iter" /\ exc' = ""
            /\ UNCHANGED <<rs, kpp>>
       ELSE IF params.init.kw = "k-means++"
       THEN IF params.metric \in Metrics
            THEN LET center_id == Randint(rs, Len(X), 1)
                 IN /\ kpp' = KppFirst(params.metric, X, center_id[1])
                    /\ rs' = Advance(rs, 1)
                    /\ starts' = Append(starts, Started(rs, None, None))
                    /\ pc' = "kinit" /\ exc' = ""
                    /\ UNCHANGED <<cluster_centers_, n_full>>
            ELSE /\ pc' = "raised" /\ exc' = "ValueError"
                 /\ starts' = Append(starts, Started(rs, None, None))
                 /\ UNCHANGED <<rs, kpp, cluster_centers_, n_full>>
       ELSE IF params.init.kw = "random"
       THEN LET indices == Randint(rs, Len(X), params.n_clusters)
                centers == Stored([j \in 1..params.n_clusters |-> X[indices[j] + 1]])
            IN /\ cluster_centers_' = _check_full_length(centers)
               /\ rs' = Advance(rs, params.n_clusters)
               /\ starts' = Append(starts, Started(rs, indices, centers))
               /\ n_full' = n_full + 1
               /\ pc' = "iter" /\ exc' = ""
               /\ UNCHANGED kpp
       ELSE /\ pc' = "raised" /\ exc' = "ValueError"
            /\ starts' = Append(starts, Started(rs, None, None))
            /\ UNCHANGED <<rs, kpp, cluster_centers_, n_full>>

\* one pass of the loop of _k_init_metric (of sklearn's _k_init for the
\* euclidean metric): one more center; after the last one the centers
\* become the initial centroids
KInitStep ==
    /\ pc = "kinit"
    /\ LET rand == RandomSample(rs, n_local_trials(params.n_clusters))
           k == KppNext(params.metric, X, kpp, rand)
          IN /\ rs' = Advance(rs, n_local_trials(params.n_clusters))
             /\ IF Len(k.centers) = params.n_clusters
                THEN /\ cluster_centers_' = _check_full_length(Stored(k.centers))
                     /\ starts' = [starts EXCEPT ![Len(starts)].init = Stored(k.centers)]
                     /\ n_full' = n_full + 1
                     /\ kpp' = None
                     /\ pc' = "iter"
                ELSE /\ kpp' = k
                     /\ pc' = "kinit"
                     /\ UNCHANGED <<cluster_centers_, starts, n_full>>
    /\ UNCHANGED <<params, X, exc, has_attrs, labels_, inertia_, X_fit, n_iter_,
                   iter_, n_attempts, n_successful, min_inertia, best, it,
                   old_inertia, history, ret, fits, first, sigma_gak_, other,
                   barycenters, call, norms_centroids_,
                   norms_of>>

\* the entry points that run fit: fit returns self, fit_predict returns
\* fit(X).labels_
EntryPoints == {"fit", "fit_predict"}
Returned(entry, labels) ==
    IF entry = "fit_predict" THEN Value("labels", labels) ELSE Value("self", None)

\* an attempt that completed, as fit sees it when _fit_one_init returns
Completed(inertia, centers, labels, n_iter, inertias) ==
    [inertia |-> inertia, centers |-> centers, labels |-> labels, n_iter |-> n_iter,
     inertias |-> inertias]

\* the iteration count _fit_one_init reports: self._iter = it + 1
\* a count that reports the index of the last iteration
IterationsDone_index(index) == index

IterationsDone(index) == index + 1

\* the test of fit that makes an attempt the best so far:
\* self.inertia_ < min_inertia
\* a restart controller that keeps the last attempt whatever its inertia
Improves_always(inertia, min) == TRUE

Improves(inertia, min) == Less(inertia, min)

\* one pass of the for loop of _fit_one_init: _assign, _update_centroids,
\* the convergence test; when the loop ends, the rest of the try block of
\* fit.  EmptyClusterError raised by _assign is caught by fit; ValueError
\* raised by _transform is not.
TSKIterate ==
    /\ params.est = "TimeSeriesKMeans"
    /\ pc = "iter"
    /\ n_assign' = n_assign + 1
    /\ UNCHANGED <<params, X, has_attrs, X_fit, rs, n_attempts, kpp, ret, fits, first,
                   sigma_gak_, starts, n_full, other, call, norms_centroids_,
                   norms_of>>
    /\ IF params.metric \notin Metrics
       THEN /\ pc' = "raised" /\ exc' = "ValueError"
            /\ UNCHANGED <<labels_, inertia_, cluster_centers_, n_iter_, iter_,
                           n_successful, min_inertia, best, it, old_inertia,
                           log, hist, n_update, barycenters>>
       ELSE
       LET labels == MatchedLabels(_transform(params.metric, X, cluster_centers_))
       IN /\ labels_' = labels
          /\ IF ~_check_no_empty_cluster(labels, params.n_clusters)
             THEN /\ pc' = "loop" /\ exc' = ""
                  /\ UNCHANGED <<inertia_, cluster_centers_, n_iter_, iter_,
                                 n_successful, min_inertia, best, it,
                                 old_inertia, log, hist, n_update, barycenters>>
             ELSE
             LET inertia == AssignInertia(params, X, cluster_centers_, labels)
                 centers == _update_centroids(X, labels, params.n_clusters)
                 done == WithinTol(old_inertia, inertia) \/ it + 1 = params.max_iter
             IN /\ inertia_' = inertia
                /\ cluster_centers_' = centers
                /\ barycenters' = [k \in 1..params.n_clusters |->
                                      BarycenterCall(params.metric, cluster_centers_[k],
                                                     params.max_iter_barycenter)]
                /\ hist' = Append(hist, inertia)
                /\ n_update' = n_update + 1
                /\ exc' = ""
                /\ IF ~done
                   THEN /\ old_inertia' = inertia
                        /\ it' = it + 1
                        /\ pc' = "iter"
                        /\ UNCHANGED <<n_iter_, iter_, n_successful, min_inertia,
                                       best, log>>
                   ELSE /\ iter_' = IterationsDone(it)
                        /\ IF Improves(inertia, min_inertia)
                           THEN /\ best' = centers
                                /\ min_inertia' = inertia
                                /\ n_iter_' = IterationsDone(it)
                           ELSE UNCHANGED <<best, min_inertia, n_iter_>>
                        /\ n_successful' = n_successful + 1
                        /\ log' = Append(log, Completed(inertia, centers, labels,
                                                        IterationsDone(it),
                                                        Append(hist, inertia)))
                        /\ pc' = "loop"
                        /\ UNCHANGED <<it, old_inertia>>

\* the end of fit: the while loop is over, _post_fit, return self
TSKPostFit ==
    /\ params.est = "TimeSeriesKMeans"
    /\ pc = "loop" /\ ~MoreAttempts
    /\ UNCHANGED <<params, X, has_attrs, n_iter_, iter_, restart, attempt, log,
                   hist, n_update, fits, first, aside>>
    /\ \E entry \in EntryPoints :
        IF isfinite(min_inertia) /\ best # None
        THEN LET labels == MatchedLabels(_transform(params.metric, X, best))
             IN /\ cluster_centers_' = best
                /\ labels_' = labels
                /\ n_assign' = n_assign + 1
                /\ IF _check_no_empty_cluster(labels, params.n_clusters)
                   THEN /\ X_fit' = X
                        /\ inertia_' = min_inertia
                        /\ pc' = "returned" /\ exc' = ""
                        /\ ret' = [ret EXCEPT !.fit = Returned(entry, labels)]
                   ELSE /\ pc' = "raised" /\ exc' = "EmptyClusterError"
                        /\ ret' = [ret EXCEPT !.fit = Raised("EmptyClusterError")]
                        /\ UNCHANGED <<X_fit, inertia_>>
        ELSE /\ X_fit' = None
             /\ pc' = "returned" /\ exc' = ""
             /\ ret' = [ret EXCEPT !.fit = Returned(entry, labels_)]
             /\ UNCHANGED <<labels_, inertia_, cluster_centers_, n_assign>>

\* sklearn's check_is_fitted(self, attribute): the attribute exists
check_is_fitted == has_attrs

\* TimeSeriesKMeans.predict(X) on the training data
TSKPredictResult ==
    IF ~check_is_fitted THEN Raised("NotFittedError")
    ELSE IF cluster_centers_ = None THEN Raised("AttributeError")
    ELSE IF params.metric \notin Metrics THEN Raised("ValueError")
    ELSE Value("labels", MatchedLabels(_transform(params.metric, X, cluster_centers_)))

\* TimeSeriesKMeans.transform(X) on the training data
TSKTransformResult ==
    IF ~check_is_fitted THEN Raised("NotFittedError")
    ELSE IF cluster_centers_ = None THEN Raised("AttributeError")
    ELSE IF params.metric \notin Metrics THEN Raised("ValueError")
    ELSE Value("dists", _transform(params.metric, X, cluster_centers_))

Idle == pc \in {"new", "returned", "raised"}

TSKPredict ==
    /\ params.est = "TimeSeriesKMeans" /\ Idle
    /\ ret' = [ret EXCEPT !.predict = TSKPredictResult]
    /\ UNCHANGED <<params, X, pc, exc, attrs, restart, attempt, history, fits, first,
                   aside>>

TSKTransform ==
    /\ params.est = "TimeSeriesKMeans" /\ Idle
    /\ ret' = [ret EXCEPT !.transform = TSKTransformResult]
    /\ UNCHANGED <<params, X, pc, exc, attrs, restart, attempt, history, fits, first,
                   aside>>

\* --------------------------------------------------------- KernelKMeans
NoInertia == -2         \* inertia_ = None, as KernelKMeans.fit resets it

\* the kernel: the callable k(x, y) = 1 - |x - y| / MaxVal, which is 1 on
\* the diagonal; values are stored times MaxVal
KernelValue(a, b) == MaxVal - Abs(a - b)

\* cdist_gak for the bandwidth sigma is external: it is taken to be
\* k(x, y) = max(0, 1 - |x - y| / sigma), which is 1 on the diagonal and
\* grows with sigma; values are stored times MaxVal
GakValue(a, b, sigma) == Max(0, MaxVal - (MaxVal * Abs(a - b)) \div sigma)

\* tslearn.metrics.sigma_gak(X) is external (a median of distances between
\* samples of the dataset): it is taken to be the lower median of the
\* pairwise distances of the dataset, and at least 1
sigma_gak(Xd) ==
    LET pairs == {q \in (1..Len(Xd)) \X (1..Len(Xd)) : q[1] < q[2]}
        upto(v) == Cardinality({q \in pairs : Abs(Xd[q[1]] - Xd[q[2]]) <= v})
        median == CHOOSE v \in 0..MaxVal :
                     /\ 2 * upto(v) >= Cardinality(pairs)
                     /\ \A w \in 0..(v - 1) : 2 * upto(w) < Cardinality(pairs)
    IN Max(1, median)

\* KernelKMeans._get_kernel_params: the bandwidth in the dict it returns.
\* Once a fit call has set sigma_gak_, that attribute replaces the
\* configured bandwidth.
_get_kernel_params ==
    IF params.kernel = "gak"
    THEN IF has_attrs THEN sigma_gak_ ELSE params.sigma
    ELSE NoSigma

\* KernelKMeans._get_kernel(X, Y), called once fit has set sigma_gak_
_get_kernel(Xa, Xb) ==
    [i \in 1..Len(Xa) |->
       [m \in 1..Len(Xb) |->
          IF params.kernel = "gak" THEN GakValue(Xa[i], Xb[m], _get_kernel_params)
          ELSE KernelValue(Xa[i], Xb[m])]]

\* sample_weight=None: _check_sample_weight returns ones
Ones(n) == [i \in 1..n |-> 1]

\* KernelKMeans._compute_dist, when no mask is empty (it raises
\* EmptyClusterError otherwise):
\*   dist[i, j] = 2 - 2 * sum(sw[mask] * K[i, mask]) / sum(sw[mask])
\* in units of 1 / (Scale * MaxVal)
\* a distance that leaves the sample weights out
_compute_dist_unweighted(K, labels, sw, n_clusters) ==
    [i \in 1..Len(K) |->
       [j \in 1..n_clusters |->
          LET mask == {m \in 1..Len(labels) : labels[m] = j - 1}
              num == SumSeq([m \in 1..Len(labels) |-> IF m \in mask THEN K[i][m] ELSE 0])
          IN 2 * Scale * MaxVal - (2 * Scale * num) \div Cardinality(mask)]]

_compute_dist(K, labels, sw, n_clusters) ==
    [i \in 1..Len(K) |->
       [j \in 1..n_clusters |->
          LET mask == {m \in 1..Len(labels) : labels[m] = j - 1}
              num == SumSeq([m \in 1..Len(labels) |->
                               IF m \in mask THEN sw[m] * K[i][m] ELSE 0])
              den == SumSeq([m \in 1..Len(labels) |-> IF m \in mask THEN sw[m] ELSE 0])
          IN 2 * Scale * MaxVal - (2 * Scale * num) \div den]]

\* the number of clusters whose column of dist _compute_dist fills before
\* it returns or raises: the loop over j stops at the first empty mask
ColumnsComputed(labels, n_clusters) ==
    Cardinality({j \in 0..(n_clusters - 1) :
                    \A c \in 0..j : \E m \in 1..Len(labels) : labels[m] = c})

\* KernelKMeans._compute_inertia: dist_sq.min(axis=1).sum()
KernelInertia(dist) == SumSeq([i \in 1..Len(dist) |-> dist[i][ArgMin(dist[i]) + 1]])

\* KernelKMeans.fit up to the while loop
KernelFitCall ==
    /\ params.est = "KernelKMeans"
    /\ pc \in {"new", "returned", "raised"}
    /\ fits' = fits + 1
    /\ first' = IF fits = 0 THEN None ELSE Outcome
    /\ has_attrs' = TRUE
    /\ sigma_gak_' = IF params.kernel # "gak" THEN NoSigma
                     ELSE IF _get_kernel_params = Auto THEN sigma_gak(X)
                     ELSE _get_kernel_params
    /\ labels_' = None /\ inertia_' = NoInertia /\ X_fit' = None /\ n_iter_' = 0
    /\ rs' \in check_random_state(params.random_state)
    /\ best' = None /\ min_inertia' = Inf /\ n_successful' = 0 /\ n_attempts' = 0
    /\ log' = <<>> /\ hist' = <<>> /\ n_assign' = 0 /\ n_update' = 0
    /\ ret' = NoCalls
    /\ pc' = "loop" /\ exc' = ""
    /\ starts' = <<>> /\ n_full' = 0
    /\ UNCHANGED <<params, X, cluster_centers_, iter_, attempt, other,
                   barycenters, call, norms_centroids_,
                   norms_of>>

\* the caller calls fit at most MaxFits times on one object
KernelFit == fits < MaxFits /\ KernelFitCall

\* the first fit call on an object
KernelFitOnce == fits = 0 /\ KernelFitCall

\* one pass of the while loop up to the for loop of _fit_one_init: the
\* random initial labels
KernelStartAttempt ==
    /\ params.est = "KernelKMeans"
    /\ pc = "loop" /\ MoreAttempts
    /\ n_attempts' = n_attempts + 1
    /\ labels_' = Randint(rs, params.n_clusters, Len(X))
    /\ rs' = Advance(rs, Len(X))
    /\ starts' = Append(starts, Started(rs, None, Randint(rs, params.n_clusters, Len(X))))
    /\ hist' = <<>>
    /\ it' = 0 /\ old_inertia' = Inf
    /\ pc' = "iter"
    /\ UNCHANGED <<params, X, exc, has_attrs, inertia_, cluster_centers_, X_fit,
                   n_iter_, iter_, n_successful, min_inertia, best, kpp, log,
                   n_assign, n_update, ret, fits, first, sigma_gak_, n_full, other,
                   barycenters, call, norms_centroids_,
                   norms_of>>

\* one pass of the for loop of _fit_one_init; when the loop ends, the rest
\* of the try block of fit
KernelIterate ==
    /\ params.est = "KernelKMeans"
    /\ pc = "iter"
    /\ n_assign' = n_assign + 1
    /\ n_update' = n_update + ColumnsComputed(labels_, params.n_clusters)
    /\ UNCHANGED <<params, X, exc, has_attrs, cluster_centers_, X_fit, rs,
                   n_attempts, kpp, ret, fits, first, aside>>
    /\ IF ~_check_no_empty_cluster(labels_, params.n_clusters)
       THEN \* _compute_dist raises EmptyClusterError
            /\ pc' = "loop"
            /\ UNCHANGED <<labels_, inertia_, n_iter_, iter_, n_successful,
                           min_inertia, best, it, old_inertia, log, hist>>
       ELSE
       LET dist == _compute_dist(_get_kernel(X, X), labels_, Ones(Len(X)),
                                 params.n_clusters)
           labels == MatchedLabels(dist)
       IN /\ labels_' = labels
          /\ IF ~_check_no_empty_cluster(labels, params.n_clusters)
             THEN /\ pc' = "loop"
                  /\ UNCHANGED <<inertia_, n_iter_, iter_, n_successful,
                                 min_inertia, best, it, old_inertia, log, hist>>
             ELSE
             LET inertia == KernelInertia(dist)
                 done == WithinTol(old_inertia, inertia) \/ it + 1 = params.max_iter
             IN /\ inertia_' = inertia
                /\ hist' = Append(hist, inertia)
                /\ IF ~done
                   THEN /\ old_inertia' = inertia
                        /\ it' = it + 1
                        /\ pc' = "iter"
                        /\ UNCHANGED <<n_iter_, iter_, n_successful, min_inertia,
                                       best, log>>
                   ELSE /\ iter_' = IterationsDone(it)
                        /\ IF Improves(inertia, min_inertia)
                           THEN /\ best' = labels
                                /\ min_inertia' = inertia
                                /\ n_iter_' = IterationsDone(it)
                           ELSE UNCHANGED <<best, min_inertia, n_iter_>>
                        /\ n_successful' = n_successful + 1
                        /\ log' = Append(log, Completed(inertia, None, labels,
                                                        IterationsDone(it),
                                                        Append(hist, inertia)))
                        /\ pc' = "loop"
                        /\ UNCHANGED <<it, old_inertia>>

\* the end of KernelKMeans.fit
KernelPostFit ==
    /\ params.est = "KernelKMeans"
    /\ pc = "loop" /\ ~MoreAttempts
    /\ pc' = "returned"
    /\ UNCHANGED <<params, X, exc, has_attrs, cluster_centers_, n_iter_, iter_,
                   restart, attempt, history, fits, first, aside>>
    /\ \E entry \in EntryPoints :
        IF n_successful > 0
        THEN /\ labels_' = best
             /\ inertia_' = min_inertia
             /\ X_fit' = X
             /\ ret' = [ret EXCEPT !.fit = Returned(entry, best)]
        ELSE /\ ret' = [ret EXCEPT !.fit = Returned(entry, labels_)]
             /\ UNCHANGED <<labels_, inertia_, X_fit>>

\* KernelKMeans.predict(X) on the training data: the kernel between X and
\* the training set, the masks of labels_
KernelPredictResult ==
    IF ~check_is_fitted THEN Raised("NotFittedError")
    ELSE IF X_fit = None THEN Raised("AttributeError")
    ELSE IF ~_check_no_empty_cluster(labels_, params.n_clusters)
    THEN Raised("EmptyClusterError")
    ELSE Value("labels", MatchedLabels(
             _compute_dist(_get_kernel(X, X_fit), labels_, Ones(Len(X_fit)),
                           params.n_clusters)))

KernelPredict ==
    /\ params.est = "KernelKMeans" /\ Idle
    /\ ret' = [ret EXCEPT !.predict = KernelPredictResult]
    /\ UNCHANGED <<params, X, pc, exc, attrs, restart, attempt, history, fits, first,
                   aside>>

\* --------------------------------------------------------------- KShape
\* Shape-based distance and shape extraction are external (cycc, eigh) and
\* have no closed form on integers: 1 - cdist_normalized_cc is taken to be
\* the distance |x - c| between shapes, and the shape extracted from a
\* cluster may be the shape of any of its members.

\* KShape._cross_dists
_cross_dists(Xd, centers) ==
    [i \in 1..Len(Xd) |-> [j \in 1..Len(centers) |-> Abs(Scale * Xd[i] - centers[j])]]

\* the centroids KShape._shape_extraction may return for cluster k
_shape_extraction(Xd, labels, k) ==
    {Scale * Xd[i] : i \in {m \in 1..Len(Xd) : labels[m] = k}}

\* the centroid arrays KShape._update_centroids may produce
KShapeUpdates(Xd, labels, n_clusters) ==
    {c \in [1..n_clusters -> {Scale * v : v \in 0..MaxVal}] :
        \A j \in 1..n_clusters : c[j] \in _shape_extraction(Xd, labels, j - 1)}

\* TimeSeriesScalerMeanVariance(mu=0., std=1.) on series of length one: the
\* mean is the value itself and a zero std is replaced by 1
ScalerMeanVariance(Xd) == [i \in 1..Len(Xd) |-> 0]

\* numpy.linalg.norm(centers, axis=(1, 2)) of an array of series as the
\* caller passed them (samples of X, an init array), as stored
norm(centers) == [j \in 1..Len(centers) |-> Abs(centers[j])]

\* the norm of a series TimeSeriesScalerMeanVariance(mu=0., std=1.)
\* returned: the same for every series (sqrt(sz) in the source; here the
\* norm of the sample of value 1, as stored)
ScaledNorm == Scale

\* numpy.linalg.norm(self.cluster_centers_, axis=(1, 2)) at the end of
\* _update_centroids: the centroids have just been rescaled
norm_rescaled(n_clusters) == [j \in 1..n_clusters |-> ScaledNorm]

KShapeInertia(Xd, centers, labels) ==
    _compute_inertia(_cross_dists(Xd, centers), labels, TRUE)

\* KShape.fit up to the while loop
KShapeFit ==
    /\ params.est = "KShape"
    /\ pc \in {"new", "returned", "raised"}
    /\ fits < MaxFits
    /\ fits' = fits + 1
    /\ first' = IF fits = 0 THEN None ELSE Outcome
    /\ has_attrs' = TRUE
    /\ labels_' = None /\ inertia_' = Inf /\ cluster_centers_' = None
    /\ n_iter_' = 0
    /\ X_fit' = X
    /\ log' = <<>> /\ hist' = <<>> /\ n_assign' = 0 /\ n_update' = 0
    /\ ret' = NoCalls
    /\ best' = None /\ min_inertia' = Inf /\ n_successful' = 0 /\ n_attempts' = 0
    /\ IF _check_initial_guess(params.init.array, params.n_clusters)
       THEN /\ rs' \in check_random_state(params.random_state)
            /\ pc' = "loop" /\ exc' = ""
       ELSE /\ pc' = "raised" /\ exc' = "AssertionError"
            /\ UNCHANGED rs
    /\ starts' = <<>> /\ n_full' = 0
    /\ norms_centroids_' = None /\ norms_of' = NoNorms
    /\ UNCHANGED <<params, X, iter_, attempt, sigma_gak_, other,
                   barycenters, call>>

\* one pass of the while loop up to the for loop of _fit_one_init: the
\* initial centroids, their norms and the first _assign
KShapeStartAttempt ==
    /\ params.est = "KShape"
    /\ pc = "loop" /\ MoreAttempts
    /\ n_attempts' = n_attempts + 1
    /\ it' = 0 /\ old_inertia' = Inf
    /\ UNCHANGED <<params, X, has_attrs, X_fit, n_iter_, iter_, n_successful,
                   min_inertia, best, kpp, log, n_update, ret, fits, first,
                   sigma_gak_, n_full, other,
                   barycenters, call>>
    /\ IF params.init.array = None /\ params.init.kw # "random"
       THEN /\ pc' = "raised" /\ exc' = "ValueError"
            /\ starts' = Append(starts, Started(rs, None, None))
            /\ hist' = <<>>
            /\ UNCHANGED <<rs, cluster_centers_, labels_, inertia_, n_assign,
                           norms_centroids_, norms_of>>
       ELSE
       LET indices == Randint(rs, Len(X), params.n_clusters)
           centers == IF params.init.array # None THEN InitCentroids(params.init)
                      ELSE Stored([j \in 1..params.n_clusters |-> X[indices[j] + 1]])
           labels == MatchedLabels(_cross_dists(X, centers))
       IN /\ rs' = IF params.init.array # None THEN rs
                   ELSE Advance(rs, params.n_clusters)
          /\ starts' = Append(starts, Started(rs,
                            IF params.init.array # None THEN None ELSE indices,
                            centers))
          /\ cluster_centers_' = centers
          /\ norms_centroids_' = norm(centers)
          /\ norms_of' = [norms_of EXCEPT !.centers = norm(centers)]
          /\ labels_' = labels
          /\ n_assign' = n_assign + 1
          /\ exc' = ""
          /\ IF _check_no_empty_cluster(labels, params.n_clusters)
             THEN /\ inertia_' = KShapeInertia(X, centers, labels)
                  /\ hist' = <<KShapeInertia(X, centers, labels)>>
                  /\ pc' = "iter"
             ELSE /\ pc' = "loop"
                  /\ hist' = <<>>
                  /\ UNCHANGED inertia_

\* one pass of the for loop of _fit_one_init: _update_centroids, _assign,
\* the stopping rule with its rollback; when the loop ends, the rest of the
\* try block of fit
KShapeIterate ==
    /\ params.est = "KShape"
    /\ pc = "iter"
    /\ n_update' = n_update + 1
    /\ UNCHANGED <<params, X, exc, has_attrs, X_fit, rs, n_attempts, kpp, ret,
                   fits, first, sigma_gak_, starts, n_full, other, barycenters,
                   call>>
    /\ norms_centroids_' = norm_rescaled(params.n_clusters)
    /\ \E centers \in KShapeUpdates(X, labels_, params.n_clusters) :
        LET old_cluster_centers == cluster_centers_
            labels == MatchedLabels(_cross_dists(X, centers))
        IN IF ~_check_no_empty_cluster(labels, params.n_clusters)
           THEN /\ cluster_centers_' = centers
                /\ norms_of' = [norms_of EXCEPT
                                   !.centers = norm_rescaled(params.n_clusters)]
                /\ labels_' = labels
                /\ n_assign' = n_assign + 1
                /\ pc' = "loop"
                /\ UNCHANGED <<inertia_, n_iter_, iter_, n_successful, min_inertia,
                               best, it, old_inertia, log, hist>>
           ELSE
           LET inertia == KShapeInertia(X, centers, labels)
               rollback == WithinTol(old_inertia, inertia) \/ Less(old_inertia, inertia)
               back_labels == MatchedLabels(_cross_dists(X, old_cluster_centers))
               end_centers == IF rollback THEN old_cluster_centers ELSE centers
               end_labels == IF rollback THEN back_labels ELSE labels
               end_inertia == IF rollback
                              THEN KShapeInertia(X, old_cluster_centers, back_labels)
                              ELSE inertia
               end_norms == IF rollback THEN norms_of.centers
                            ELSE norm_rescaled(params.n_clusters)
           IN IF rollback /\ ~_check_no_empty_cluster(back_labels, params.n_clusters)
              THEN /\ cluster_centers_' = old_cluster_centers
                   /\ UNCHANGED norms_of
                   /\ labels_' = back_labels
                   /\ inertia_' = inertia
                   /\ n_assign' = n_assign + 2
                   /\ pc' = "loop"
                   /\ UNCHANGED <<n_iter_, iter_, n_successful, min_inertia, best,
                                  it, old_inertia, log, hist>>
              ELSE
              /\ cluster_centers_' = end_centers
              /\ labels_' = end_labels
              /\ inertia_' = end_inertia
              /\ n_assign' = n_assign + (IF rollback THEN 2 ELSE 1)
              /\ hist' = Append(hist, inertia)
              /\ IF ~rollback /\ it + 1 < params.max_iter
                 THEN /\ old_inertia' = inertia
                      /\ it' = it + 1
                      /\ pc' = "iter"
                      /\ norms_of' = [norms_of EXCEPT !.centers = end_norms]
                      /\ UNCHANGED <<n_iter_, iter_, n_successful, min_inertia,
                                     best, log>>
                 ELSE /\ iter_' = IterationsDone(it)
                      /\ old_inertia' = IF rollback THEN old_inertia ELSE inertia
                      /\ IF Improves(end_inertia, min_inertia)
                         THEN /\ best' = end_centers
                              /\ min_inertia' = end_inertia
                              /\ n_iter_' = IterationsDone(it)
                              /\ norms_of' = [centers |-> end_norms, best |-> end_norms]
                         ELSE /\ norms_of' = [norms_of EXCEPT !.centers = end_norms]
                              /\ UNCHANGED <<best, min_inertia, n_iter_>>
                      /\ n_successful' = n_successful + 1
                      /\ log' = Append(log, Completed(end_inertia, end_centers,
                                                      end_labels, IterationsDone(it),
                                                      Append(hist, inertia)))
                      /\ pc' = "loop"
                      /\ UNCHANGED it

\* the end of KShape.fit: norms_centroids_, _post_fit, return self
KShapePostFit ==
    /\ params.est = "KShape"
    /\ pc = "loop" /\ ~MoreAttempts
    /\ UNCHANGED <<params, X, has_attrs, n_iter_, iter_, restart, attempt, log,
                   hist, n_update, fits, first, sigma_gak_, starts, n_full, other,
                   barycenters, call>>
    /\ norms_centroids_' = norms_of.centers
    /\ \E entry \in EntryPoints :
        IF isfinite(min_inertia) /\ best # None
        THEN LET labels == MatchedLabels(_cross_dists(X, best))
             IN /\ cluster_centers_' = best
                /\ norms_of' = [norms_of EXCEPT !.centers = norms_of.best]
                /\ labels_' = labels
                /\ n_assign' = n_assign + 1
                /\ IF _check_no_empty_cluster(labels, params.n_clusters)
                   THEN /\ X_fit' = X
                        /\ inertia_' = min_inertia
                        /\ pc' = "returned" /\ exc' = ""
                        /\ ret' = [ret EXCEPT !.fit = Returned(entry, labels)]
                   ELSE /\ pc' = "raised" /\ exc' = "EmptyClusterError"
                        /\ ret' = [ret EXCEPT !.fit = Raised("EmptyClusterError")]
                        /\ UNCHANGED <<X_fit, inertia_>>
        ELSE /\ X_fit' = None
             /\ pc' = "returned" /\ exc' = ""
             /\ ret' = [ret EXCEPT !.fit = Returned(entry, labels_)]
             /\ UNCHANGED <<labels_, inertia_, cluster_centers_, n_assign, norms_of>>

\* KShape.predict(X) on the training data: X is rescaled, then _cross_dists
KShapePredictResult ==
    IF ~check_is_fitted THEN Raised("NotFittedError")
    ELSE IF cluster_centers_ = None THEN Raised("AttributeError")
    ELSE Value("labels",
               MatchedLabels(_cross_dists(ScalerMeanVariance(X), cluster_centers_)))

KShapePredict ==
    /\ params.est = "KShape" /\ Idle
    /\ ret' = [ret EXCEPT !.predict = KShapePredictResult]
    /\ UNCHANGED <<params, X, pc, exc, attrs, restart, attempt, history, fits, first,
                   aside>>

\* ------------------------------------------------------------ round trip
\* The caller builds a second TimeSeriesKMeans with the configuration of a
\* fitted one, except that init is the cluster_centers_ of the fitted one:
\*   km2 = TimeSeriesKMeans(..., init=km.cluster_centers_)
\* __init__ of a new object: the attempt and history variables are those
\* of Constructed
Construct ==
    /\ pc' = "new" /\ exc' = "" /\ has_attrs' = FALSE
    /\ labels_' = None /\ inertia_' = Inf /\ cluster_centers_' = None
    /\ X_fit' = None /\ n_iter_' = 0 /\ iter_' = 0
    /\ rs' = [seed |-> 0, pos |-> 0]
    /\ n_attempts' = 0 /\ n_successful' = 0 /\ min_inertia' = Inf /\ best' = None
    /\ it' = 0 /\ old_inertia' = Inf /\ kpp' = None
    /\ log' = <<>> /\ hist' = <<>> /\ n_assign' = 0 /\ n_update' = 0
    /\ ret' = NoCalls /\ fits' = 0 /\ first' = None
    /\ sigma_gak_' = NoSigma /\ starts' = <<>> /\ n_full' = 0
    /\ barycenters' = <<>> /\ call' = None
    /\ norms_centroids_' = None /\ norms_of' = NoNorms

RoundTripInit == [kw |-> "cluster_centers_", array |-> cluster_centers_]

TSKRoundTrip ==
    /\ params.est = "TimeSeriesKMeans"
    /\ pc = "returned" /\ cluster_centers_ # None
    /\ other = None
    /\ other' = Outcome
    /\ params' = [params EXCEPT !.init = RoundTripInit]
    /\ Construct
    /\ UNCHANGED X

\* configurations with one more iteration than the loops of Spec may run,
\* so that a loop can stop on its tolerance before its cap
LongRuns(P) == {[p EXCEPT !.max_iter = m] : p \in P, m \in 1..(MaxIter + 1)}

RoundTripParams ==
    LongRuns({p \in TSKParams :
                 /\ p.n_init \in 1..MaxNInit /\ p.random_state # NoSeed
                 /\ p.metric \in Metrics
                 /\ _check_initial_guess(p.init.array, p.n_clusters)
                 /\ p.init.array = None => p.init.kw \in {"k-means++", "random"}})

InitRoundTrip ==
    /\ params \in {p \in RoundTripParams : p.dtw_inertia => p.metric = "softdtw"}
    /\ X \in Datasets
    /\ Constructed
    /\ other = None

NextRoundTrip ==
    \/ TSKFit \/ TSKStartAttempt \/ KInitStep \/ TSKIterate \/ TSKPostFit
    \/ TSKRoundTrip

SpecRoundTrip == InitRoundTrip /\ [][NextRoundTrip]_vars

\* ---------------------------------------------------- two kernel blocks
\* KernelKMeans on a kernel matrix made of two blocks: the first
\* BlockSizes[1] samples are similar to each other, the last BlockSizes[2]
\* as well, and samples of different blocks are not.
BlockSizes == <<3, 2>>
FirstBlock == 1..BlockSizes[1]
SecondBlock == (BlockSizes[1] + 1)..(BlockSizes[1] + BlockSizes[2])
SameBlock(i, m) == (i \in FirstBlock) = (m \in FirstBlock)

\* datasets whose kernel matrix (KernelValue, unit diagonal) has the
\* similarity 1 inside a block and at most 1/MaxVal across the blocks
BlockDatasets ==
    {d \in [FirstBlock \cup SecondBlock -> 0..MaxVal] :
        \A i, m \in FirstBlock \cup SecondBlock :
            IF SameBlock(i, m) THEN d[i] = d[m]
            ELSE Abs(d[i] - d[m]) >= MaxVal - 1}

\* max_iter goes beyond the three iterations the blocks are found in
BlockParams ==
    {[p EXCEPT !.max_iter = m] :
        p \in {q \in KernelParams : /\ q.n_clusters = 2 /\ q.n_init = 1
                                     /\ q.kernel = "callable"
                                     /\ q.random_state = NoSeed},
        m \in 1..(MaxIter + 2)}

\* one pass of the while loop of KernelKMeans.fit up to the for loop of
\* _fit_one_init, for every labelling rs.randint may return: the state of
\* the generator is left out, and so are the labels in starts
KernelStartAttemptAnyLabels ==
    /\ params.est = "KernelKMeans"
    /\ pc = "loop" /\ MoreAttempts
    /\ n_attempts' = n_attempts + 1
    /\ labels_' \in [1..Len(X) -> 0..(params.n_clusters - 1)]
    /\ starts' = Append(starts, Started(rs, None, None))
    /\ hist' = <<>>
    /\ it' = 0 /\ old_inertia' = Inf
    /\ pc' = "iter"
    /\ UNCHANGED <<params, X, exc, has_attrs, inertia_, cluster_centers_, X_fit,
                   n_iter_, iter_, rs, n_successful, min_inertia, best, kpp, log,
                   n_assign, n_update, ret, fits, first, sigma_gak_, n_full, other,
                   barycenters, call, norms_centroids_,
                   norms_of>>

InitBlocks ==
    /\ params \in BlockParams
    /\ X \in BlockDatasets
    /\ Constructed
    /\ other = None

NextBlocks ==
    \/ KernelFitOnce \/ KernelStartAttemptAnyLabels \/ KernelIterate
    \/ KernelPostFit

SpecBlocks == InitBlocks /\ [][NextBlocks]_vars

\* ------------------------------------------------ seeding on two clusters
\* _k_init_metric(X, n_clusters, cdist_metric, random_state) called on
\* SeedPoints points, the first half of them within 1 of 0 and the others
\* within 1 of MaxVal, for every value random_state may return.
SeedPoints == 6
SeedDatasets ==
    {d \in [1..SeedPoints -> 0..MaxVal] :
        \A i \in 1..SeedPoints :
            IF 2 * i <= SeedPoints THEN d[i] <= 1 ELSE d[i] >= MaxVal - 1}

\* the cluster of a sample value: TRUE for the cluster around 0
LowCluster(v) == v <= 1

SeedParams ==
    {p \in TSKParams : /\ p.n_clusters = 2 /\ p.metric = "euclidean"
                       /\ p.init = KeywordInit("k-means++")
                       /\ p.n_init = 1 /\ p.max_iter = 1
                       /\ ~p.dtw_inertia /\ p.random_state = NoSeed}

\* the first center: center_id = random_state.randint(n_samples)
KInitFirstAnyDraw ==
    /\ pc = "new"
    /\ \E center_id \in 0..(Len(X) - 1) :
           kpp' = KppFirst(params.metric, X, center_id)
    /\ pc' = "kinit"
    /\ UNCHANGED <<params, X, exc, attrs, restart, it, old_inertia, history, ret,
                   fits, first, aside>>

\* one pass of the loop: random_state.random_sample(n_local_trials); after
\* the last pass the function returns the centers
KInitStepAnyDraw ==
    /\ pc = "kinit"
    /\ \E rand \in [1..n_local_trials(params.n_clusters) -> 0..(RandRes - 1)] :
           kpp' = KppNext(params.metric, X, kpp, rand)
    /\ pc' = IF Len(kpp'.centers) = params.n_clusters THEN "seeded" ELSE "kinit"
    /\ UNCHANGED <<params, X, exc, attrs, restart, it, old_inertia, history, ret,
                   fits, first, aside>>

InitSeeding ==
    /\ params \in SeedParams
    /\ X \in SeedDatasets
    /\ Constructed
    /\ other = None

NextSeeding == KInitFirstAnyDraw \/ KInitStepAnyDraw

SpecSeeding == InitSeeding /\ [][NextSeeding]_vars

\* ---------------------------------------------- seeding on three clusters
\* _k_init_metric called for three centers on every dataset, under each
\* metric, for every value random_state may return
ThreeSeedParams ==
    {p \in TSKParams : /\ p.n_clusters = 3 /\ p.metric \in Metrics
                       /\ p.init = KeywordInit("k-means++")
                       /\ p.n_init = 1 /\ p.max_iter = 1
                       /\ ~p.dtw_inertia /\ p.random_state = NoSeed}

InitThreeSeeds ==
    /\ params \in ThreeSeedParams
    /\ X \in Datasets
    /\ Constructed
    /\ other = None

SpecThreeSeeds == InitThreeSeeds /\ [][NextSeeding]_vars

\* ------------------------------------------------------ fit after a fit
\* The caller fits one object on a dataset, then on another one, then
\* builds a second object with the same configuration and fits it on the
\* second dataset:
\*   m1.fit(A); m1.fit(B); m2 = Estimator(**config); m2.fit(B)
OtherData ==
    /\ pc = "returned" /\ fits = 1 /\ other = None
    /\ X' \in Datasets \ {X}
    /\ UNCHANGED <<params, pc, exc, attrs, restart, attempt, history, ret, fits,
                   first, aside>>

FreshObject ==
    /\ pc \in {"returned", "raised"} /\ fits = MaxFits /\ other = None
    /\ other' = Outcome
    /\ Construct
    /\ UNCHANGED <<params, X>>

\* seeded configurations that pass the checks of fit
RefitParams ==
    {p \in TSKParams \cup KernelParams :
        /\ p.n_init = 1 /\ p.random_state # NoSeed
        /\ p.est = "TimeSeriesKMeans" =>
              /\ p.metric \in Metrics /\ ~p.dtw_inertia
              /\ _check_initial_guess(p.init.array, p.n_clusters)
              /\ p.init.array = None => p.init.kw \in {"k-means++", "random"}}

InitRefit ==
    /\ params \in RefitParams
    /\ X \in Datasets
    /\ Constructed
    /\ other = None

NextRefit ==
    \/ TSKFit \/ TSKStartAttempt \/ KInitStep \/ TSKIterate \/ TSKPostFit
    \/ KernelFit \/ KernelStartAttempt \/ KernelIterate \/ KernelPostFit
    \/ OtherData \/ FreshObject

SpecRefit == InitRefit /\ [][NextRefit]_vars

\* ------------------------------------------------------- attempts of fit
\* fit of TimeSeriesKMeans and of KernelKMeans as one thread runs it: once
\* the caller has called fit, the statements of fit follow one another
\* until fit returns or raises, so the steps inside fit are weakly fair;
\* calling fit is up to the caller.
AttemptParams ==
    LongRuns({p \in TSKParams \cup KernelParams :
                 /\ p.n_init \in 1..MaxNInit
                 /\ p.dtw_inertia => p.metric = "softdtw"})

InitAttempts ==
    /\ params \in AttemptParams
    /\ X \in Datasets
    /\ Constructed
    /\ other = None

\* a fit call is running
InFit == pc \in {"loop", "kinit", "iter"}

FitSteps ==
    \/ TSKStartAttempt \/ KInitStep \/ TSKIterate \/ TSKPostFit
    \/ KernelStartAttempt \/ KernelIterate \/ KernelPostFit

NextAttempts == TSKFit \/ KernelFit \/ FitSteps

\* WF_vars(FitSteps), written with the state predicate that ENABLED
\* <<FitSteps>>_vars equals: a step of fit is possible exactly while a
\* fit call is running, and each of them changes pc, it or kpp
FairFitSteps == []<>(~InFit) \/ []<><<FitSteps>>_vars

SpecAttempts == InitAttempts /\ [][NextAttempts]_vars /\ FairFitSteps

\* ------------------------------------------- the kernel-trick distance
\* KernelKMeans._compute_dist(K, dist) called on an object that holds
\* labels_ and sample_weight_, for kernel matrices between DistSamples
\* samples: the symmetric ones with unit diagonal (values are stored times
\* MaxVal) and the ones whose entries are all 0 or 1
DistSamples == 3
DistWeights == {1, 2}

SamplePairs == {{i, m} : i, m \in 1..DistSamples} \ {{i} : i \in 1..DistSamples}

KernelMatrices ==
    {[i \in 1..DistSamples |->
        [m \in 1..DistSamples |-> IF i = m THEN MaxVal ELSE u[{i, m}]]] :
            u \in [SamplePairs -> 0..MaxVal]}
    \cup [1..DistSamples -> [1..DistSamples -> {0, MaxVal}]]

DistParams ==
    {p \in KernelParams : /\ p.n_init = 1 /\ p.max_iter = 1
                           /\ p.kernel = "callable" /\ p.random_state = NoSeed}

\* the call: every column of dist is filled, or EmptyClusterError is raised
KernelComputeDist ==
    /\ params.est = "KernelKMeans"
    /\ pc = "new" /\ call = None
    /\ \E K \in KernelMatrices, sw \in [1..DistSamples -> DistWeights],
          labels \in [1..DistSamples -> 0..(params.n_clusters - 1)] :
          /\ labels_' = labels
          /\ IF _check_no_empty_cluster(labels, params.n_clusters)
             THEN /\ call' = [K |-> K, sw |-> sw,
                              dist |-> _compute_dist(K, labels, sw, params.n_clusters)]
                  /\ exc' = ""
             ELSE /\ call' = [K |-> K, sw |-> sw, dist |-> None]
                  /\ exc' = "EmptyClusterError"
    /\ pc' = "called"
    /\ UNCHANGED <<params, X, has_attrs, inertia_, cluster_centers_, X_fit, n_iter_,
                   iter_, restart, attempt, history, ret, fits, first, sigma_gak_,
                   starts, n_full, other, barycenters, norms_centroids_,
                   norms_of>>

InitKernelDist ==
    /\ params \in DistParams
    /\ X = [i \in 1..DistSamples |-> 0]
    /\ Constructed
    /\ other = None

NextKernelDist == KernelComputeDist

SpecKernelDist == InitKernelDist /\ [][NextKernelDist]_vars

Next ==
    \/ TSKFit \/ TSKStartAttempt \/ KInitStep \/ TSKIterate \/ TSKPostFit
    \/ TSKPredict \/ TSKTransform
    \/ KernelFit \/ KernelStartAttempt \/ KernelIterate \/ KernelPostFit
    \/ KernelPredict
    \/ KShapeFit \/ KShapeStartAttempt \/ KShapeIterate \/ KShapePostFit
    \/ KShapePredict

Spec == Init /\ [][Next]_vars

\* =================================================================== claims

\* C1: the restart controller starts at most max(n_init, 10) attempts and
\* starts no attempt once n_init attempts have completed; an attempt
\* aborted by EmptyClusterError is counted in n_attempts (the cap) but not
\* in n_successful (n_init).
C1_RestartBounds ==
    [][ /\ n_attempts' <= (IF params.n_init > MinMaxAttempts THEN params.n_init
                           ELSE MinMaxAttempts)
        /\ n_successful' <= params.n_init
        /\ n_successful' = Len(log')
        /\ (n_attempts' > n_attempts =>
               /\ n_attempts' = n_attempts + 1
               /\ n_successful < params.n_init)
        /\ (InFit /\ pc' = "loop" /\ log' = log =>
               /\ n_successful' = n_successful
               /\ n_attempts' >= n_attempts
               /\ n_attempts' > n_successful')
      ]_vars

\* a fit with n_init above the floor of the cap: aborted and completed
\* attempts, ended by the cap at n_init attempts
C1_Witness ==
    /\ pc = "returned" /\ params.n_init = MinMaxAttempts + 1
    /\ n_attempts = MinMaxAttempts + 1
    /\ n_successful > 0 /\ n_successful < n_attempts

\* C2: after a fit in which an attempt succeeded, inertia_ is the lowest
\* inertia of the completed attempts, and the centroids (labels for
\* KernelKMeans) and n_iter_ are those of the earliest attempt with that
\* inertia.
C2_BestAttemptKept ==
    pc = "returned" /\ Len(log) > 0 =>
        \E m \in 1..Len(log) :
            /\ \A j \in 1..Len(log) : log[m].inertia <= log[j].inertia
            /\ \A j \in 1..(m - 1) : log[j].inertia > log[m].inertia
            /\ inertia_ = log[m].inertia
            /\ n_iter_ = log[m].n_iter
            /\ IF params.est = "KernelKMeans" THEN labels_ = log[m].labels
               ELSE cluster_centers_ = log[m].centers

\* two attempts completed and the second one is not the one kept
C2_Witness ==
    /\ pc = "returned" /\ Len(log) = 2
    /\ log[1].inertia < log[2].inertia
    /\ inertia_ = log[1].inertia

\* all attempts of the last fit call aborted with EmptyClusterError
Exhausted == pc = "returned" /\ fits >= 1 /\ n_successful = 0

\* C3: EmptyClusterError never reaches the caller of fit.
C3_EmptyClusterErrorNeverEscapes == exc # "EmptyClusterError"

\* C4: when every attempt aborted, fit leaves no labels and no centroids
\* (stated for TimeSeriesKMeans).
C4_UnfittedAfterExhaustion ==
    Exhausted /\ params.est = "TimeSeriesKMeans" =>
        labels_ = None /\ cluster_centers_ = None

\* C5: after a fit in which every attempt aborted, predict and transform
\* fail with a "not fitted" condition (stated for TimeSeriesKMeans).
C5_NotFittedAfterExhaustion ==
    Exhausted /\ params.est = "TimeSeriesKMeans" =>
        /\ (ret.predict.kind # "none" => ret.predict = Raised("NotFittedError"))
        /\ (ret.transform.kind # "none" => ret.transform = Raised("NotFittedError"))

\* C6: every label of labels_ is in [0, n_clusters), and after a fit that
\* returned with a successful attempt every cluster index labels a sample.
C6_LabelsInRangeAndNoEmptyCluster ==
    /\ labels_ # None =>
          \A i \in 1..Len(labels_) : labels_[i] >= 0 /\ labels_[i] < params.n_clusters
    /\ pc = "returned" /\ n_successful > 0 =>
          /\ Len(labels_) = Len(X)
          /\ \A k \in 0..(params.n_clusters - 1) :
                \E i \in 1..Len(labels_) : labels_[i] = k

\* a fit that returned after an aborted and a completed attempt
C6_Witness ==
    /\ pc = "returned" /\ n_successful > 0 /\ n_attempts > n_successful
    /\ labels_ # None

\* C7: fit_predict(X) returns the labels that fit(X) followed by predict(X)
\* returns (stated for KernelKMeans, whose predict reads the final masks).
C7_FitPredictIsFitThenPredict ==
    /\ params.est = "KernelKMeans"
    /\ ret.fit.kind = "labels" /\ ret.predict.kind # "none"
    => ret.predict = ret.fit

\* C8: with an integer random_state and n_init = 1, a second fit on the same
\* data ends exactly as the first one did (TimeSeriesKMeans, KernelKMeans;
\* the shape extraction of KShape is left open by the model).
C8_SeededFitIsDeterministic ==
    /\ fits = 2 /\ Idle
    /\ params.random_state # NoSeed /\ params.n_init = 1
    /\ params.est # "KShape"
    => /\ first.labels_ = labels_
       /\ first.cluster_centers_ = cluster_centers_
       /\ first.pc = pc /\ first.exc = exc
       /\ first.inertia_ = inertia_ /\ first.n_iter_ = n_iter_

\* a second seeded fit from random initial centroids has returned labels
C8_Witness ==
    /\ fits = 2 /\ pc = "returned" /\ n_successful = 1
    /\ params.random_state # NoSeed /\ params.n_init = 1
    /\ params.est = "TimeSeriesKMeans" /\ params.init.kw = "random"
    /\ labels_ # None

NonIncreasing(inertias) ==
    /\ \A t \in 1..Len(inertias) : inertias[t] >= 0
    /\ \A t \in 1..(Len(inertias) - 1) : inertias[t + 1] <= inertias[t]

\* C9: in TimeSeriesKMeans the inertia is non-negative, and within a
\* successful attempt it never increases from one iteration to the next.
C9_InertiaNonIncreasing ==
    params.est = "TimeSeriesKMeans" =>
        \A a \in 1..Len(log) : NonIncreasing(log[a].inertias)

\* the configuration errors of TimeSeriesKMeans and KShape
BadCount == params.init.array # None /\ Len(params.init.array) # params.n_clusters
BadKeyword ==
    /\ params.init.array = None
    /\ \/ params.est = "TimeSeriesKMeans" /\ params.init.kw \notin {"k-means++", "random"}
       \/ params.est = "KShape" /\ params.init.kw # "random"
BadMetric == params.est = "TimeSeriesKMeans" /\ params.metric \notin Metrics

\* C10: a configuration error reaches the caller of fit, with at most one
\* attempt started and no centroid update executed; the initialization
\* errors arrive before any assignment.
C10_ConfigurationErrorIsFatal ==
    fits >= 1 /\ (BadCount \/ BadKeyword \/ BadMetric) =>
        /\ n_attempts <= 1 /\ n_update = 0 /\ n_successful = 0
        /\ pc \in {"loop", "kinit", "iter", "raised"}
        /\ (pc = "loop" => n_attempts = 0)
        /\ (pc = "raised" => exc \in {"AssertionError", "ValueError"})
        /\ (BadCount => pc = "raised" /\ exc = "AssertionError" /\ n_attempts = 0)
        /\ (BadCount \/ BadKeyword => n_assign = 0)

\* the unknown metric was met by the first assignment of the first attempt
C10_Witness ==
    /\ pc = "raised" /\ exc = "ValueError"
    /\ BadMetric /\ n_attempts = 1 /\ n_assign = 1

\* the second object of the round trip has completed its first fit call
RoundTripDone ==
    /\ params.est = "TimeSeriesKMeans" /\ params.init.kw = "cluster_centers_"
    /\ other # None /\ fits = 1 /\ pc \in {"returned", "raised"}

BlockPartition(labels) ==
    /\ \A i, m \in FirstBlock \cup SecondBlock :
           SameBlock(i, m) <=> labels[i] = labels[m]

OnePerCluster == LowCluster(kpp.centers[1]) # LowCluster(kpp.centers[2])

\* a candidate of the last pass lies in the cluster without the first center
CandidateAcross ==
    \E t \in 1..Len(kpp.candidate_ids) :
        LowCluster(X[kpp.candidate_ids[t] + 1]) # LowCluster(kpp.centers[1])

\* C13 as stated: on 6 points forming 2 obvious clusters, _k_init_metric
\* with n_clusters=2 returns one center per cluster for every outcome of
\* the first-center draw and of the candidate draws.
C13_SeedsOnePerCluster == pc = "seeded" => OnePerCluster

\* C13: on 6 points forming 2 obvious clusters, _k_init_metric with
\* n_clusters=2 returns one center per cluster for every outcome of the
\* draws in which at least one of the n_local_trials candidates lies in the
\* cluster that does not hold the first center.
C13_SeedsOnePerClusterWhenDrawn ==
    (pc = "seeded" /\ CandidateAcross) => OnePerCluster

C13_Witness ==
    /\ pc = "seeded" /\ CandidateAcross /\ OnePerCluster
    /\ \E t \in 1..Len(kpp.candidate_ids) :
           LowCluster(X[kpp.candidate_ids[t] + 1]) = LowCluster(kpp.centers[1])

\* C14: the fitted state a fit call leaves (labels_, centroids, inertia_,
\* n_iter_, sigma_gak_, and whether it returned or raised) does not depend
\* on earlier fit calls on the object: once a freshly built object with
\* the same configuration and seed has been fitted on the same dataset,
\* its fitted state equals that of the object fitted before on other data.
C14_NoIncrementalFitting ==
    (other # None /\ fits = 1 /\ pc \in {"returned", "raised"}) => Outcome = other

\* the inertia the stopping test of iteration t compares with: infinity
\* for the first iteration
InertiaBefore(inertias, t) == IF t = 1 THEN Inf ELSE inertias[t - 1]

\* the attempt ran n_iter iterations, none before the last one met the
\* tolerance, and the last one met it unless it is iteration max_iter
StopsAtFirstTolerance(a) ==
    /\ a.n_iter = Len(a.inertias)
    /\ a.n_iter >= 1 /\ a.n_iter <= params.max_iter
    /\ \A t \in 1..(a.n_iter - 1) :
           ~WithinTol(InertiaBefore(a.inertias, t), a.inertias[t])
    /\ a.n_iter < params.max_iter =>
           WithinTol(InertiaBefore(a.inertias, a.n_iter), a.inertias[a.n_iter])

\* the for loop is at the head of iteration it + 1 <= max_iter, after it
\* iterations none of which met the tolerance
LoopInBounds ==
    pc = "iter" =>
        /\ it < params.max_iter /\ Len(hist) = it
        /\ \A t \in 1..it : ~WithinTol(InertiaBefore(hist, t), hist[t])

\* C15: an attempt of TimeSeriesKMeans or KernelKMeans runs at most
\* max_iter iterations, stops at the first iteration whose inertia is
\* within tol of the previous one (infinity before the first iteration),
\* and reports in _iter the number of iterations it ran; every fit call
\* that is running eventually returns or raises.
C15_AttemptsTerminate ==
    /\ [](LoopInBounds /\ \A a \in 1..Len(log) : StopsAtFirstTolerance(log[a]))
    /\ (InFit ~> pc \in {"returned", "raised"})

\* a fit returned after an attempt that stopped on its tolerance before
\* the cap and an attempt that ran into the cap
C15_Witness ==
    /\ pc = "returned" /\ Len(log) = 2
    /\ log[1].n_iter = 2 /\ params.max_iter = 3
    /\ log[2].n_iter = 3
    /\ ~WithinTol(log[2].inertias[2], log[2].inertias[3])

\* the labelling has no empty cluster
AllClustersUsed(labels) ==
    labels # None /\ _check_no_empty_cluster(labels, params.n_clusters)

\* the labels a centroid update (a column of the kernel-trick distance)
\* of this step reads: TimeSeriesKMeans updates from the labels the step
\* has just assigned, KShape and KernelKMeans from the labels before it
LabelsOfUpdate == IF params.est = "TimeSeriesKMeans" THEN labels_' ELSE labels_

\* an assignment of an attempt (of its loop, or the one KShape makes from
\* the initial centroids) has left a cluster empty
AssignmentLeftEmptyCluster ==
    /\ pc = "iter" \/ n_attempts' > n_attempts
    /\ n_assign' > n_assign
    /\ labels_' # None
    /\ ~_check_no_empty_cluster(labels_', params.n_clusters)

\* C16: whenever a centroid update (TimeSeriesKMeans, KShape) or the
\* kernel-trick distance of a cluster (KernelKMeans) is computed, every
\* cluster has a member in the labels it is computed from; and an
\* assignment of an attempt that leaves a cluster empty ends the attempt
\* at once: fit is back at its while loop and the attempt does not complete.
C16_EmptyCheckPrecedesUpdate ==
    [][ /\ n_update' > n_update => AllClustersUsed(LabelsOfUpdate)
        /\ AssignmentLeftEmptyCluster => pc' = "loop" /\ log' = log
      ]_vars

\* the stopping rule of KShape rejects an iteration: its inertia is worse
\* than the inertia before it, or within tol of it
Rejected(before, after) == WithinTol(before, after) \/ Less(before, after)

\* C17: in a KShape attempt an iteration whose inertia is worse than the
\* inertia before it, or within tol of it, is the last one, and the attempt
\* then ends with the inertia before that iteration, which is less than or
\* equal to every inertia observed earlier in the attempt (the inertias of
\* an attempt are that of the initial assignment, then one per iteration).
C17_RollbackKeepsBest ==
    params.est = "KShape" =>
        \A a \in 1..Len(log) :
            \A t \in 1..log[a].n_iter :
                Rejected(log[a].inertias[t], log[a].inertias[t + 1]) =>
                    /\ t = log[a].n_iter
                    /\ log[a].inertia = log[a].inertias[t]
                    /\ \A u \in 1..t : log[a].inertia <= log[a].inertias[u]

\* C18: with init="random" (TimeSeriesKMeans, KShape) the initial
\* centroids of every attempt are the series at the drawn sample indices,
\* and the drawn indices are pairwise distinct.
C18_RandomInitDistinct ==
    \A a \in 1..Len(starts) :
        starts[a].indices # None =>
            /\ Len(starts[a].indices) = params.n_clusters
            /\ starts[a].init =
                   Stored([j \in 1..params.n_clusters |-> X[starts[a].indices[j] + 1]])
            /\ \A i, j \in 1..params.n_clusters :
                   i # j => starts[a].indices[i] # starts[a].indices[j]

\* C19: within one fit call no two attempts start from the same state of
\* the random generator with the same initial centroids (for KernelKMeans,
\* the same initial labels), whatever the initialization.
C19_AttemptsNeverRepeat ==
    \A a, b \in 1..Len(starts) :
        a < b => ~(starts[a].rs = starts[b].rs /\ starts[a].init = starts[b].init)

\* C20: every centroid update of TimeSeriesKMeans is followed, before the
\* next assignment, by the full-length resampling of the centroids: a
\* step that updates the centroids also calls _check_full_length.
C20_UpdateIsResampled ==
    [][ (params.est = "TimeSeriesKMeans" /\ n_update' > n_update)
            => n_full' > n_full ]_vars

\* the update of this step called the barycenter routine of every cluster
\* with that cluster's previous centroid as the start and with the
\* configured max_iter_barycenter as the iteration cap
SeededAndCapped ==
    \A k \in 1..params.n_clusters :
        /\ barycenters'[k].init = cluster_centers_[k]
        /\ barycenters'[k].max_iter = params.max_iter_barycenter

\* C21: under metric "dtw" every per-cluster call of _update_centroids to
\* dtw_barycenter_averaging starts from the previous centroid of the
\* cluster and is given max_iter_barycenter as its iteration cap, as the
\* call to softdtw_barycenter is.
C21_DbaSeededAndCapped ==
    [][ ( /\ params.est = "TimeSeriesKMeans" /\ params.metric = "dtw"
          /\ n_update' > n_update )
        => /\ \A k \in 1..params.n_clusters :
                 barycenters'[k].routine = "dtw_barycenter_averaging"
           /\ SeededAndCapped ]_vars

RECURSIVE SumOver(_, _)
\* the sum of f[m] over the members m of S
SumOver(S, f) ==
    IF S = {} THEN 0
    ELSE LET m == CHOOSE m \in S : TRUE IN f[m] + SumOver(S \ {m}, f)

\* the members of cluster j (counted from 1) in labels_
Mask(j) == {m \in 1..Len(labels_) : labels_[m] = j - 1}

\* C22: for every sample i and cluster j, with M_j the members of j in the
\* current labels and w the sample weights, _compute_dist fills
\*   dist[i, j] = 2 - 2 * (sum over M_j of w_m * K[i, m]) / (sum over M_j of w_m)
\* (dist in units of 1 / (Scale * MaxVal), K in units of 1 / MaxVal: the
\* equation is multiplied by the sum of the weights).
C22_DistIsReferenceFormula ==
    (call # None /\ pc = "called" /\ exc = "") =>
        \A i \in 1..Len(call.K), j \in 1..params.n_clusters :
            SumOver(Mask(j), [m \in Mask(j) |-> call.sw[m]])
                    * (2 * Scale * MaxVal - call.dist[i][j])
                = 2 * Scale * SumOver(Mask(j), [m \in Mask(j) |-> call.sw[m] * call.K[i][m]])

\* a call with unequal weights inside a cluster, on a kernel matrix that is
\* not symmetric, that gave two samples different distances to a cluster
C22_Witness ==
    /\ call # None /\ pc = "called" /\ exc = ""
    /\ \E m, q \in Mask(1) : call.sw[m] # call.sw[q]
    /\ call.K[1][2] # call.K[2][1]
    /\ call.dist[1][1] # call.dist[2][1]

\* a step that ends an attempt with an inertia strictly below min_inertia
CompletesLower ==
    /\ n_successful' > n_successful
    /\ inertia_' # Inf
    /\ (min_inertia = Inf \/ inertia_' < min_inertia)

\* C23: once an attempt has been recorded as best, every step of a later
\* attempt of the same fit call that does not complete the attempt with a
\* strictly lower inertia (a pass of the loop, an abort with
\* EmptyClusterError, a completion with an inertia not below min_inertia)
\* leaves the retained best centroids (labels for KernelKMeans),
\* min_inertia and n_iter_ unchanged.
C23_BestIsRetained ==
    [][ (best # None /\ fits' = fits /\ ~CompletesLower)
            => UNCHANGED <<best, min_inertia, n_iter_>> ]_vars

\* a second attempt completed with a higher inertia: the working centroids,
\* labels and inertia are its own, the retained ones those of the first
C23_Witness ==
    /\ params.est = "TimeSeriesKMeans" /\ pc = "loop" /\ Len(log) = 2
    /\ log[2].inertia > log[1].inertia
    /\ cluster_centers_ = log[2].centers /\ labels_ = log[2].labels
    /\ inertia_ = log[2].inertia
    /\ best = log[1].centers /\ best # cluster_centers_
    /\ min_inertia = log[1].inertia /\ n_iter_ = log[1].n_iter

\* the smallest squared dissimilarity between sample i and a center of the
\* set chosen
ClosestSq(chosen, i) ==
    LET D == {KppDistSq(params.metric, v, X[i]) : v \in chosen}
    IN CHOOSE d \in D : \A e \in D : d <= e

\* the potential of a set of centers
Potential(chosen) ==
    SumOver(1..Len(X), [i \in 1..Len(X) |-> ClosestSq(chosen, i)])

\* the centers _k_init_metric chose before the last one, and all of them
EarlierCenters == {kpp.centers[j] : j \in 1..(Len(kpp.centers) - 1)}
ChosenCenters == {kpp.centers[j] : j \in 1..Len(kpp.centers)}

\* C24: in _k_init_metric, after the first center and after each further
\* one, closest_dist_sq[i] is the minimum over the centers chosen so far of
\* the squared dissimilarity between sample i and the center, current_pot
\* is the sum of closest_dist_sq, the center added last is a sampled
\* candidate whose resulting potential is the smallest, every candidate
\* index is within [0, n_samples - 1], and every center is a sequence of
\* the dataset.
C24_SeedingBookkeeping ==
    kpp # None =>
        /\ \A i \in 1..Len(X) : kpp.closest_dist_sq[i] = ClosestSq(ChosenCenters, i)
        /\ kpp.current_pot = SumSeq(kpp.closest_dist_sq)
        /\ \A v \in ChosenCenters : \E i \in 1..Len(X) : v = X[i]
        /\ Len(kpp.centers) > 1 =>
              /\ \A t \in 1..Len(kpp.candidate_ids) :
                     kpp.candidate_ids[t] \in 0..(Len(X) - 1)
              /\ \E t \in 1..Len(kpp.candidate_ids) :
                     /\ kpp.centers[Len(kpp.centers)] = X[kpp.candidate_ids[t] + 1]
                     /\ \A u \in 1..Len(kpp.candidate_ids) :
                            Potential(EarlierCenters \cup {X[kpp.candidate_ids[t] + 1]})
                              <= Potential(EarlierCenters \cup {X[kpp.candidate_ids[u] + 1]})

\* the third center was chosen among candidates of different potential, the
\* last index of the dataset among them, and some sample is closer to an
\* earlier center than to the one added last
C24_Witness ==
    /\ kpp # None /\ Len(kpp.centers) = 3
    /\ \E t, u \in 1..Len(kpp.candidate_ids) :
           /\ kpp.candidate_ids[t] = Len(X) - 1
           /\ Potential(EarlierCenters \cup {X[kpp.candidate_ids[t] + 1]})
                # Potential(EarlierCenters \cup {X[kpp.candidate_ids[u] + 1]})
    /\ \E i \in 1..Len(X) :
           kpp.closest_dist_sq[i] > 0
           /\ kpp.closest_dist_sq[i]
                < KppDistSq(params.metric, kpp.centers[3], X[i])

\* C25: after a successful TimeSeriesKMeans fit, inertia_ is the inertia
\* of labels_ measured against cluster_centers_: the three fitted
\* attributes describe the same assignment.
C25_FittedAttributesAgree ==
    (params.est = "TimeSeriesKMeans" /\ pc = "returned" /\ n_successful > 0)
        => inertia_ = AssignInertia(params, X, cluster_centers_, labels_)

\* C26: in KShape, whenever an assignment has been computed and whenever
\* fit has returned, norms_centroids_ is the vector of norms of the current
\* cluster_centers_ (after a rollback, and after a fit whose best attempt
\* is not the last one run, too).
C26_NormsFollowCentroids ==
    (params.est = "KShape" /\ n_assign > 0) => norms_centroids_ = norms_of.centers
====
